---- MODULE Spec2Model ----
(***************************************************************************)
(* A model of quantum-duo: the BB84 session engine (bb84.py), the key      *)
(* accumulation and sweep driver (bb84.py), key packing and the encryption *)
(* envelope (crypto_utils.py) and the security gate of main (main.py).     *)
(*                                                                         *)
(* Randomness.  numpy's Generator and the Aer simulator are both seeded    *)
(* with the session seed, so each is a fixed stream per seed.  A stream is *)
(* modelled as a tape that is chosen lazily: the first call that needs the *)
(* k-th value of the stream chooses it, every later call that reads the    *)
(* k-th value of the same seed's stream gets the recorded value.  A raw    *)
(* value of the Generator is an element of RawValues; random() is          *)
(* raw / PDen, integers(0, 2) is raw, choice(['Z','X']) is the raw-th      *)
(* label.  Probabilities are numerators over PDen.                         *)
(***************************************************************************)
EXTENDS Integers, Sequences, FiniteSets, TLC

\* ------------------------------------------------------------------ bounds
MaxN == 2                \* largest transmission count n of a session
RawValues == {0, 1}      \* raw values of the random stream
PDen == Cardinality(RawValues)    \* random() = raw / PDen, a probability is pnum / PDen
One == PDen                       \* the probability 1.0
PGrid == {0, 1, 2}                \* p in {0.0, 0.5, 1.0}
NGrid == 0 .. MaxN
PConfig == {-1, 0, 1, 2, 3}       \* with p = -0.5 and p = 1.5
NConfig == {-1, 0, 1}             \* with a negative and a zero count
MaxMinLen == 3           \* largest min_len handed to _collect_key_minlen directly
MaxMainN == 1            \* largest --n of a run of main
MaxSteps == 1            \* largest --steps of a run of main
MaxBits == 16            \* longest bit sequence handed to bits_to_key_bytes
MaxLen == 2              \* longest plaintext and longest stream key
Seeds == {1, 123}        \* base seeds
MaxAvg == 18             \* largest avg of run_qber_heatmap
MaxPeSteps == 2          \* largest pe_steps of run_qber_heatmap
MaxPnSteps == 2          \* largest pn_steps of run_qber_heatmap
MaxHeatN == 1            \* largest n of run_qber_heatmap
ByteSamples == {0, 1, 123, 255}

\* ------------------------------------------------------- program constants
HopCap == 10             \* "hop < 10"
KeyMinLen == 128         \* run_bb84: min_len=128
CollectSeedOffset == 99  \* run_bb84: seed=seed+99
ThresholdNum == 11       \* threshold = 0.11
ThresholdDen == 100
SeedStride == 17         \* idx += 17
NonceLen == 16           \* os.urandom(16), blob[:16]

\* Python's None, where a dict or a float may stand
None == [none |-> TRUE]

\* ------------------------------------------------------- single-qubit states
\* A circuit on one qubit started in |0> with gates from {x, h, z} is, up to a
\* global phase, in one of |0>, |1>, |+>, |->, written "0", "1", "+", "-".

\* qc.x(0)
ApplyX(s) == CASE s = "0" -> "1" [] s = "1" -> "0" [] s = "+" -> "+" [] s = "-" -> "-"

\* qc.h(0)
ApplyH(s) == CASE s = "0" -> "+" [] s = "1" -> "-" [] s = "+" -> "0" [] s = "-" -> "1"

\* qc.z(0)
ApplyZ(s) == CASE s = "0" -> "0" [] s = "1" -> "1" [] s = "+" -> "-" [] s = "-" -> "+"

\* _prepare_state; a basis label that is neither 'Z' nor 'X' raises.
PrepareState(bit, basis) ==
    IF basis = "Z" THEN (IF bit = 1 THEN ApplyX("0") ELSE "0")
    ELSE IF basis = "X" THEN (IF bit = 1 THEN ApplyZ(ApplyH("0")) ELSE ApplyH("0"))
    ELSE "ValueError"

\* The state the measurement gate sees: a copy of qc, rotated by h for basis X.
MeasuredState(qc, basis) == IF basis = "X" THEN ApplyH(qc) ELSE qc

\* Whether the one shot of the simulator is a coin toss.
NeedsCoin(qc, basis) == MeasuredState(qc, basis) \in {"+", "-"}

MeasureNoRotation(qc, basis, coin) ==
    IF qc = "0" THEN 0 ELSE IF qc = "1" THEN 1 ELSE coin

\* _measure_in_basis: the bit of the single shot.
MeasureInBasis(qc, basis, coin) ==
    LET m == MeasuredState(qc, basis)
    IN  IF m = "0" THEN 0 ELSE IF m = "1" THEN 1 ELSE coin

\* ------------------------------------------------------ the random streams
RngRandom(raw) == raw                       \* numerator of rng.random() over PDen
RngChoice(raw) == IF raw = 0 THEN "Z" ELSE "X"     \* rng.choice(['Z','X'])
RngInteger(raw) == raw                      \* rng.integers(0, 2)

\* draws agree with what the tape already holds from position pos on
Agrees(tape, pos, draws) ==
    \A k \in 1 .. Len(draws) :
        (pos + k - 1 <= Len(tape)) => tape[pos + k - 1] = draws[k]

\* the tape after the values at pos .. pos + Len(draws) - 1 have been read
Extend(tape, pos, draws) ==
    IF pos + Len(draws) - 1 <= Len(tape) THEN tape
    ELSE SubSeq(tape, 1, pos - 1) \o draws

Prefix(s, k) == SubSeq(s, 1, k)

\* ---------------------------------------------------------------- results
RECURSIVE GCD(_, _)
GCD(a, b) == IF b = 0 THEN a ELSE GCD(b, a % b)

\* float(np.mean(a != b)) as a fraction in lowest terms
RECURSIVE CountDiff(_, _)
CountDiff(a, b) ==
    IF Len(a) = 0 THEN 0
    ELSE (IF Head(a) # Head(b) THEN 1 ELSE 0) + CountDiff(Tail(a), Tail(b))

Mean(a, b) ==
    LET e == CountDiff(a, b)
        g == GCD(e, Len(a))
    IN  [num |-> e \div g, den |-> Len(a) \div g]

SingleResultZeroQber(sa, sb) ==
    IF Len(sa) = 0 THEN [qber |-> [num |-> 0, den |-> 1], key_bits |-> <<>>, kept |-> 0]
    ELSE [qber |-> Mean(sa, sb), key_bits |-> sa, kept |-> Len(sa)]

\* the dict _bb84_single returns
SingleResult(sa, sb) ==
    IF Len(sa) = 0 THEN [qber |-> None, key_bits |-> <<>>, kept |-> 0]
    ELSE [qber |-> Mean(sa, sb), key_bits |-> sa, kept |-> Len(sa)]

\* ------------------------------------------------- one transmission (loop body)
InterceptsInclusive(raw, pe) == RngRandom(raw) <= pe

\* rng.random() < p_eve
Intercepts(raw, pe) == RngRandom(raw) < pe

\* p_noise > 0 and rng.random() < p_noise ; the draw happens only if p_noise > 0
NoiseDraws(pn) == pn > 0
NoiseFlips(raw, pn) == RngRandom(raw) < pn

\* The body of the loop of _bb84_single for one index: rs are the next raw
\* values of the Generator, cs the next coins of the simulator; nr and nc say
\* how many of each the body consumed.
SingleBody(abit, abasis, bbasis, pe, pn, rs, cs) ==
    LET qc0 == PrepareState(abit, abasis)
        icpt == Intercepts(rs[1], pe)
        ebasis == IF icpt THEN RngChoice(rs[2]) ELSE "none"
        ecoin == icpt /\ NeedsCoin(qc0, ebasis)
        ebit == IF icpt THEN MeasureInBasis(qc0, ebasis, cs[1]) ELSE -1
        qc1 == IF icpt THEN PrepareState(ebit, ebasis) ELSE qc0
        nr1 == IF icpt THEN 2 ELSE 1
        nc1 == IF ecoin THEN 1 ELSE 0
        flip == NoiseDraws(pn) /\ NoiseFlips(rs[nr1 + 1], pn)
        qc2 == IF flip THEN ApplyX(qc1) ELSE qc1
        bcoin == NeedsCoin(qc2, bbasis)
        bbit == MeasureInBasis(qc2, bbasis, cs[nc1 + 1])
    IN  [abit |-> abit, abasis |-> abasis, bbasis |-> bbasis,
         intercepted |-> icpt, eve_basis |-> ebasis, eve_bit |-> ebit,
         resent |-> qc1, flipped |-> flip, measured |-> qc2, bob_bit |-> bbit,
         nr |-> nr1 + (IF NoiseDraws(pn) THEN 1 ELSE 0),
         nc |-> nc1 + (IF bcoin THEN 1 ELSE 0)]

\* the same loop body with the noise draw taken before the intercept draw
WalkBodyNoiseFirst(abit, abasis, bbasis, pe, pn, rs, cs) ==
    LET qc0 == PrepareState(abit, abasis)
        nr0 == IF NoiseDraws(pn) THEN 1 ELSE 0
        flip == NoiseDraws(pn) /\ NoiseFlips(rs[1], pn)
        icpt == Intercepts(rs[nr0 + 1], pe)
        ebasis == IF icpt THEN RngChoice(rs[nr0 + 2]) ELSE "none"
        ecoin == icpt /\ NeedsCoin(qc0, ebasis)
        ebit == IF icpt THEN MeasureInBasis(qc0, ebasis, cs[1]) ELSE -1
        qc1 == IF icpt THEN PrepareState(ebit, ebasis) ELSE qc0
        nc1 == IF ecoin THEN 1 ELSE 0
        qc2 == IF flip THEN ApplyX(qc1) ELSE qc1
        bcoin == NeedsCoin(qc2, bbasis)
        bbit == MeasureInBasis(qc2, bbasis, cs[nc1 + 1])
    IN  [abit |-> abit, abasis |-> abasis, bbasis |-> bbasis,
         intercepted |-> icpt, eve_basis |-> ebasis, eve_bit |-> ebit,
         resent |-> qc1, flipped |-> flip, measured |-> qc2, bob_bit |-> bbit,
         nr |-> nr0 + (IF icpt THEN 2 ELSE 1),
         nc |-> nc1 + (IF bcoin THEN 1 ELSE 0)]

\* The body of the loop of bb84_walkthrough for one index.
WalkBody(abit, abasis, bbasis, pe, pn, rs, cs) ==
    LET qc0 == PrepareState(abit, abasis)
        icpt == Intercepts(rs[1], pe)
        ebasis == IF icpt THEN RngChoice(rs[2]) ELSE "none"
        ecoin == icpt /\ NeedsCoin(qc0, ebasis)
        ebit == IF icpt THEN MeasureInBasis(qc0, ebasis, cs[1]) ELSE -1
        qc1 == IF icpt THEN PrepareState(ebit, ebasis) ELSE qc0
        nr1 == IF icpt THEN 2 ELSE 1
        nc1 == IF ecoin THEN 1 ELSE 0
        flip == NoiseDraws(pn) /\ NoiseFlips(rs[nr1 + 1], pn)
        qc2 == IF flip THEN ApplyX(qc1) ELSE qc1
        bcoin == NeedsCoin(qc2, bbasis)
        bbit == MeasureInBasis(qc2, bbasis, cs[nc1 + 1])
    IN  [abit |-> abit, abasis |-> abasis, bbasis |-> bbasis,
         intercepted |-> icpt, eve_basis |-> ebasis, eve_bit |-> ebit,
         resent |-> qc1, flipped |-> flip, measured |-> qc2, bob_bit |-> bbit,
         nr |-> nr1 + (IF NoiseDraws(pn) THEN 1 ELSE 0),
         nc |-> nc1 + (IF bcoin THEN 1 ELSE 0)]

\* the draws a loop body may be handed: three raw values, two coins
RawDraws == [1 .. 3 -> RawValues]
CoinDraws == [1 .. 2 -> RawValues]

\* values the body did not consume are written 0
Canonical(o, rs, cs) ==
    /\ \A k \in 1 .. 3 : k > o.nr => rs[k] = 0
    /\ \A k \in 1 .. 2 : k > o.nc => cs[k] = 0

\* ------------------------------------------- every outcome of a session call
Bits == {0, 1}
Bases == {"Z", "X"}

\* Bob's possible bits in one transmission
TxBobBits(abit, abasis, bbasis, pe, pn) ==
    {SingleBody(abit, abasis, bbasis, pe, pn, rs, cs).bob_bit :
        rs \in RawDraws, cs \in CoinDraws}

\* the possible <<sift_alice, sift_bob>> after the indices k .. n, from acc
RECURSIVE SiftRuns(_, _, _, _, _, _, _)
SiftRuns(ab, as, bs, pe, pn, k, acc) ==
    IF k > Len(ab) THEN acc
    ELSE SiftRuns(ab, as, bs, pe, pn, k + 1,
            IF as[k] = bs[k]
            THEN {<<Append(q[1], ab[k]), Append(q[2], b)>> :
                     q \in acc, b \in TxBobBits(ab[k], as[k], bs[k], pe, pn)}
            ELSE acc)

\* the dicts _bb84_single may return once the three arrays are drawn
SessionResultsGiven(ab, as, bs, pe, pn) ==
    {SingleResult(q[1], q[2]) : q \in SiftRuns(ab, as, bs, pe, pn, 1, {<< <<>>, <<>> >>})}

\* the dicts _bb84_single(n, pe, pn, seed) may return, over all streams
SessionResults(m, pe, pn) ==
    UNION {SessionResultsGiven(ab, as, bs, pe, pn) :
              ab \in [1 .. m -> Bits], as \in [1 .. m -> Bases], bs \in [1 .. m -> Bases]}

\* -------------------------------------------------------------- python slices
Min(a, b) == IF a < b THEN a ELSE b
Max(a, b) == IF a > b THEN a ELSE b

\* s[:m]
SliceTo(s, m) ==
    IF m >= 0 THEN SubSeq(s, 1, Min(m, Len(s))) ELSE SubSeq(s, 1, Max(Len(s) + m, 0))

\* s[m:] for m >= 0
SliceFrom(s, m) == SubSeq(s, Min(m, Len(s)) + 1, Len(s))

\* ------------------------------------------------------ _collect_key_minlen
CollectContinuesInclusive(b, h, ml) == Len(b) < ml /\ h <= HopCap

\* "while len(bits) < min_len and hop < 10"
CollectContinues(b, h, ml) == Len(b) < ml /\ h < HopCap

\* the sets of bit lists after hop h, from the set S after hop h - 1
RECURSIVE CollectRuns(_, _, _, _, _)
CollectRuns(S, h, ml, m, pn) ==
    IF \A b \in S : ~CollectContinues(b, h, ml) THEN S
    ELSE CollectRuns(
            {b \in S : ~CollectContinues(b, h, ml)}
            \cup {b \o r.key_bits : b \in {c \in S : CollectContinues(c, h, ml)},
                                    r \in SessionResults(m, 0, pn)},
            h + 1, ml, m, pn)

\* the lists _collect_key_minlen(min_len, n, p_noise, seed) may return
CollectResults(ml, m, pn) == {SliceTo(b, ml) : b \in CollectRuns({<<>>}, 0, ml, m, pn)}

\* ------------------------------------------------------------------ run_bb84
\* np.linspace(0.0, 1.0, steps)[k], k from 0
Linspace(st, k) == IF st <= 1 THEN 0 ELSE (k * One) \div (st - 1)

\* rr["qber"] if rr["qber"] is not None else 0.0
QberOrZero(q) == IF q = None THEN [num |-> 0, den |-> 1] ELSE q

\* the possible qbers lists of the sweep, the first k entries
RECURSIVE SweepRuns(_, _, _, _)
SweepRuns(st, k, m, pn) ==
    IF k = 0 THEN {<<>>}
    ELSE {Append(qs, QberOrZero(rr.qber)) :
             qs \in SweepRuns(st, k - 1, m, pn),
             rr \in SessionResults(m, Linspace(st, k - 1), pn)}

\* ------------------------------------------------------------- crypto_utils
RECURSIVE BitXor(_, _)
BitXor(a, b) ==
    IF a = 0 /\ b = 0 THEN 0
    ELSE (((a % 2) + (b % 2)) % 2) + 2 * BitXor(a \div 2, b \div 2)

RECURSIVE SumBytes(_)
SumBytes(s) == IF Len(s) = 0 THEN 0 ELSE Head(s) + SumBytes(Tail(s))

RECURSIVE PackByteLsbFirst(_, _)
PackByteLsbFirst(byte, group) ==
    IF Len(group) = 0 THEN byte
    ELSE Head(group) + 2 * PackByteLsbFirst(byte, Tail(group))

\* "byte = (byte << 1) | int(b)" over the bits of one group
RECURSIVE PackByte(_, _)
PackByte(byte, group) ==
    IF Len(group) = 0 THEN byte
    ELSE PackByte(2 * byte + Head(group), Tail(group))

\* bits_to_key_bytes
BitsToKeyBytes(bits) ==
    LET L == Len(bits) - (Len(bits) % 8)
        byts == [j \in 1 .. (L \div 8) |-> PackByte(0, SubSeq(bits, 8 * (j - 1) + 1, 8 * j))]
    IN  IF Len(byts) > 0 THEN byts ELSE <<0>>

\* hashes.SHA256 of the library: 32 bytes that depend on the message only
Sha256(msg) == [j \in 1 .. 32 |-> ((31 * SumBytes(msg)) + (17 * Len(msg)) + (7 * j)) % 256]

\* derive_key_sha256
DeriveKeySha256(key_material, aes) == IF ~aes THEN key_material ELSE Sha256(key_material)

\* xor_bytes
XorBytes(data, key) ==
    IF Len(key) = 0 THEN data
    ELSE [j \in 1 .. Len(data) |-> BitXor(data[j], key[((j - 1) % Len(key)) + 1])]

\* the keystream of AES in counter mode: bytes that depend on key, nonce and
\* position only
AesKeystream(key, nonce, len) ==
    [j \in 1 .. len |-> ((3 * SumBytes(key)) + (5 * SumBytes(nonce)) + (11 * j) + (j * j)) % 256]

\* Cipher(algorithms.AES(key), modes.CTR(nonce)): the library raises
\* ValueError for a key or nonce of a wrong length
AesCtrRaises(key, nonce) == Len(key) \notin {16, 24, 32} \/ Len(nonce) # 16

\* encryptor().update(text) or decryptor().update(text)
AesCtr(key, nonce, text) ==
    LET ks == AesKeystream(key, nonce, Len(text))
    IN  [j \in 1 .. Len(text) |-> BitXor(text[j], ks[j])]

\* what aes_ctr_encrypt raises: "ok" for nothing
AesCtrEncryptRaises(key32, nonce, aes) ==
    IF ~aes THEN "RuntimeError"
    ELSE IF AesCtrRaises(key32, nonce) THEN "ValueError" ELSE "ok"

\* aes_ctr_encrypt, nonce the value of os.urandom(16)
AesCtrEncrypt(plaintext, key32, nonce) == nonce \o AesCtr(key32, nonce, plaintext)

\* what aes_ctr_decrypt raises: "ok" for nothing
AesCtrDecryptRaises(blob_, key32, aes) ==
    IF ~aes THEN "RuntimeError"
    ELSE IF AesCtrRaises(key32, SliceTo(blob_, NonceLen)) THEN "ValueError" ELSE "ok"

AesCtrDecryptWholeBlob(blob_, key32) ==
    AesCtr(key32, SliceTo(blob_, NonceLen), blob_)

\* aes_ctr_decrypt
AesCtrDecrypt(blob_, key32) ==
    AesCtr(key32, SliceTo(blob_, NonceLen), SliceFrom(blob_, NonceLen))

\* current_qber > threshold
ExceedsThreshold(q) == q.num * ThresholdDen > ThresholdNum * q.den

\* "if current_qber is None or current_qber > threshold"
GateAbortsNoneCheckOnly(q) == q = None
GateAborts(q) == q = None \/ ExceedsThreshold(q)

\* the serialised payloads and the nonces of the runs
ByteSeqs(maxlen) == UNION {[1 .. L -> ByteSamples] : L \in 0 .. maxlen}
Payloads == {<<123, 125>>, <<123, 1, 255, 125>>}
Nonces == {[j \in 1 .. NonceLen |-> b] : b \in {0, 255}}

\* ---------------------------------------------------------- run_qber_heatmap
\* nu / de in lowest terms, de > 0
Frac(nu, de) == LET g == GCD(nu, de) IN [num |-> nu \div g, den |-> de \div g]

\* acc + q
FracAdd(a, b) == Frac((a.num * b.den) + (b.num * a.den), a.den * b.den)

\* acc / float(avg)
FracDiv(a, k) == Frac(a.num, a.den * k)

\* np.linspace(lo, hi, st)[k], k from 0
LinspaceRange(lo, hi, st, k) ==
    IF st <= 1 THEN lo ELSE lo + (((hi - lo) * k) \div (st - 1))

\* "seed=seed+idx+k"
HeatSeed(base, ix, k) == base + ix + k

\* np.zeros((pn_steps, pe_steps)), a list of rows
Zeros(rows, cols) == [r \in 1 .. rows |-> [c \in 1 .. cols |-> Frac(0, 1)]]

\* ------------------------------------------------------------------- state
VARIABLES
    n, p_eve, p_noise,          \* the arguments of the session calls
    rngTape, simTape,           \* the two streams of the seed, as read so far
    fn, pc,                     \* the running function and its position
    alice_bits, alice_bases, bob_bases,
    i, rpos, cpos,              \* loop index, values read from each stream
    sift_a, sift_b,             \* sift_alice / sift_a and sift_bob / sift_b
    bob_bits, keep,             \* bb84_walkthrough's arrays
    txlog,                      \* history: what happened in each transmission
    single_log,                 \* history: txlog of the finished _bb84_single
    res_single, res_walk,       \* the returned dicts
    \* _collect_key_minlen
    min_len, c_seed,            \* its arguments (with n and p_noise)
    bits, hop, cpc, key_ret,
    last_call,                  \* history: the arguments of its last _bb84_single call
    \* main
    seed, steps, xor_flag,      \* args.seed, args.steps, args.xor
    aes_available,              \* AES_AVAILABLE
    mpc, bb, raw_key, key32, data, enc_mode, blob, dec,
    \* bits_to_key_bytes called on its own
    pk_bits, pk_bytes,
    \* the envelope functions called on their own
    e_plain, e_key, e_mode, e_blob, e_dec, epc,
    \* run_qber_heatmap
    pe_steps, pn_steps, avg, h_seed,    \* its arguments (with n)
    h_i, h_j, h_k, idx, acc, mat, hpc,
    h_calls                     \* history: the _bb84_single calls it made

sessVars == <<rngTape, simTape, fn, pc, alice_bits, alice_bases,
              bob_bases, i, rpos, cpos, sift_a, sift_b, bob_bits, keep, txlog,
              single_log, res_single, res_walk>>

frame == <<alice_bits, alice_bases, bob_bases, i, rpos, cpos, sift_a, sift_b,
           bob_bits, keep, txlog>>

argVars == <<n, p_eve, p_noise>>

collVars == <<min_len, c_seed, bits, hop, cpc, key_ret, last_call>>

mainVars == <<seed, steps, xor_flag, mpc, bb, raw_key, key32, data, enc_mode, blob, dec>>

packVars == <<pk_bits, pk_bytes>>

envVars == <<e_plain, e_key, e_mode, e_blob, e_dec, epc>>

heatVars == <<pe_steps, pn_steps, avg, h_seed, h_i, h_j, h_k, idx, acc, mat, hpc, h_calls>>

vars == <<argVars, sessVars, collVars, mainVars, aes_available, packVars, envVars,
          heatVars>>

nonSession == <<collVars, mainVars, aes_available, packVars, envVars, heatVars>>

SessionIdle ==
    /\ rngTape = <<>>
    /\ simTape = <<>>
    /\ fn = "_bb84_single"
    /\ pc = "call"
    /\ alice_bits = <<>>
    /\ alice_bases = <<>>
    /\ bob_bases = <<>>
    /\ i = 0
    /\ rpos = 0
    /\ cpos = 0
    /\ sift_a = <<>>
    /\ sift_b = <<>>
    /\ bob_bits = <<>>
    /\ keep = <<>>
    /\ txlog = <<>>
    /\ single_log = <<>>
    /\ res_single = None
    /\ res_walk = None

CollectIdle ==
    /\ min_len = 0
    /\ c_seed = 0
    /\ bits = <<>>
    /\ hop = 0
    /\ cpc = "idle"
    /\ key_ret = <<>>
    /\ last_call = None

MainIdle ==
    /\ seed = 0
    /\ steps = 0
    /\ xor_flag = FALSE
    /\ mpc = "idle"
    /\ bb = None
    /\ raw_key = <<>>
    /\ key32 = <<>>
    /\ data = <<>>
    /\ enc_mode = "none"
    /\ blob = <<>>
    /\ dec = <<>>

PackIdle ==
    /\ pk_bits = <<>>
    /\ pk_bytes = <<>>

EnvIdle ==
    /\ e_plain = <<>>
    /\ e_key = <<>>
    /\ e_mode = "none"
    /\ e_blob = <<>>
    /\ e_dec = <<>>
    /\ epc = "idle"

HeatIdle ==
    /\ pe_steps = 0
    /\ pn_steps = 0
    /\ avg = 0
    /\ h_seed = 0
    /\ h_i = 0
    /\ h_j = 0
    /\ h_k = 0
    /\ idx = 0
    /\ acc = None
    /\ mat = <<>>
    /\ hpc = "idle"
    /\ h_calls = <<>>

Init ==
    /\ n \in NGrid
    /\ p_eve \in PGrid
    /\ p_noise \in PGrid
    /\ SessionIdle
    /\ CollectIdle /\ MainIdle /\ PackIdle /\ EnvIdle /\ HeatIdle
    /\ aes_available = TRUE

\* the same calls, with arguments the specification calls invalid
InitConfig ==
    /\ n \in NConfig
    /\ p_eve \in PConfig
    /\ p_noise \in PConfig
    /\ SessionIdle
    /\ CollectIdle /\ MainIdle /\ PackIdle /\ EnvIdle /\ HeatIdle
    /\ aes_available = TRUE

\* rng.integers(0, 2, size=n) and the two rng.choice(['Z','X'], size=n): a
\* negative size raises ValueError inside numpy.
DrawArrays ==
    /\ pc = "call"
    /\ IF n < 0
       THEN /\ pc' = "raised"
            /\ UNCHANGED <<rngTape, frame>>
       ELSE \E ab \in [1 .. n -> RawValues], as \in [1 .. n -> RawValues],
               bs \in [1 .. n -> RawValues] :
            /\ Agrees(rngTape, 1, ab \o as \o bs)
            /\ rngTape' = Extend(rngTape, 1, ab \o as \o bs)
            /\ alice_bits' = [k \in 1 .. n |-> RngInteger(ab[k])]
            /\ alice_bases' = [k \in 1 .. n |-> RngChoice(as[k])]
            /\ bob_bases' = [k \in 1 .. n |-> RngChoice(bs[k])]
            /\ rpos' = 3 * n
            /\ cpos' = 0
            /\ i' = 0
            /\ sift_a' = <<>>
            /\ sift_b' = <<>>
            /\ bob_bits' = [k \in 1 .. n |-> 0]
            /\ keep' = [k \in 1 .. n |-> 0]
            /\ txlog' = <<>>
            /\ pc' = "loop"
    /\ UNCHANGED <<argVars, simTape, fn, single_log, res_single, res_walk, nonSession>>

\* one iteration of "for i in range(n)" of _bb84_single
SingleStep ==
    /\ fn = "_bb84_single"
    /\ pc = "loop"
    /\ i < n
    /\ \E rs \in RawDraws, cs \in CoinDraws :
         LET o == SingleBody(alice_bits[i + 1], alice_bases[i + 1], bob_bases[i + 1],
                             p_eve, p_noise, rs, cs)
         IN  /\ Canonical(o, rs, cs)
             /\ Agrees(rngTape, rpos + 1, Prefix(rs, o.nr))
             /\ Agrees(simTape, cpos + 1, Prefix(cs, o.nc))
             /\ rngTape' = Extend(rngTape, rpos + 1, Prefix(rs, o.nr))
             /\ simTape' = Extend(simTape, cpos + 1, Prefix(cs, o.nc))
             /\ rpos' = rpos + o.nr
             /\ cpos' = cpos + o.nc
             /\ IF alice_bases[i + 1] = bob_bases[i + 1]
                THEN /\ sift_a' = Append(sift_a, alice_bits[i + 1])
                     /\ sift_b' = Append(sift_b, o.bob_bit)
                ELSE UNCHANGED <<sift_a, sift_b>>
             /\ txlog' = Append(txlog, o)
    /\ i' = i + 1
    /\ UNCHANGED <<argVars, fn, pc, alice_bits, alice_bases, bob_bases,
                   bob_bits, keep, single_log, res_single, res_walk, nonSession>>

\* kept = len(sift_alice) and the return of _bb84_single
SingleReturn ==
    /\ fn = "_bb84_single"
    /\ pc = "loop"
    /\ i >= n
    /\ res_single' = SingleResult(sift_a, sift_b)
    /\ single_log' = txlog
    /\ pc' = "returned"
    /\ UNCHANGED <<argVars, rngTape, simTape, fn, frame, res_walk, nonSession>>

\* the caller then runs bb84_walkthrough with the same arguments and seed
CallWalkthrough ==
    /\ fn = "_bb84_single"
    /\ pc \in {"returned", "raised"}
    /\ fn' = "bb84_walkthrough"
    /\ pc' = "call"
    /\ UNCHANGED <<argVars, rngTape, simTape, frame, single_log, res_single, res_walk, nonSession>>

\* one iteration of "for i in range(n)" of bb84_walkthrough
WalkStep ==
    /\ fn = "bb84_walkthrough"
    /\ pc = "loop"
    /\ i < n
    /\ \E rs \in RawDraws, cs \in CoinDraws :
         LET o == WalkBody(alice_bits[i + 1], alice_bases[i + 1], bob_bases[i + 1],
                           p_eve, p_noise, rs, cs)
         IN  /\ Canonical(o, rs, cs)
             /\ Agrees(rngTape, rpos + 1, Prefix(rs, o.nr))
             /\ Agrees(simTape, cpos + 1, Prefix(cs, o.nc))
             /\ rngTape' = Extend(rngTape, rpos + 1, Prefix(rs, o.nr))
             /\ simTape' = Extend(simTape, cpos + 1, Prefix(cs, o.nc))
             /\ rpos' = rpos + o.nr
             /\ cpos' = cpos + o.nc
             /\ bob_bits' = [bob_bits EXCEPT ![i + 1] = o.bob_bit]
             /\ IF alice_bases[i + 1] = bob_bases[i + 1]
                THEN /\ keep' = [keep EXCEPT ![i + 1] = 1]
                     /\ sift_a' = Append(sift_a, alice_bits[i + 1])
                     /\ sift_b' = Append(sift_b, o.bob_bit)
                ELSE UNCHANGED <<keep, sift_a, sift_b>>
             /\ txlog' = Append(txlog, o)
    /\ i' = i + 1
    /\ UNCHANGED <<argVars, fn, pc, alice_bits, alice_bases, bob_bases,
                   single_log, res_single, res_walk, nonSession>>

\* the dict bb84_walkthrough returns
WalkResult(ab, as, bs, bbits, kp, sa, sb) ==
    [alice_bits |-> ab, alice_bases |-> as, bob_bases |-> bs, bob_bits |-> bbits,
     keep |-> kp, qber |-> IF Len(sa) > 0 THEN Mean(sa, sb) ELSE None]

WalkReturn ==
    /\ fn = "bb84_walkthrough"
    /\ pc = "loop"
    /\ i >= n
    /\ res_walk' = WalkResult(alice_bits, alice_bases, bob_bases, bob_bits, keep,
                              sift_a, sift_b)
    /\ pc' = "returned"
    /\ UNCHANGED <<argVars, rngTape, simTape, fn, frame, single_log, res_single, nonSession>>

Next ==
    \/ DrawArrays
    \/ SingleStep
    \/ SingleReturn
    \/ CallWalkthrough
    \/ WalkStep
    \/ WalkReturn

Spec == Init /\ [][Next]_vars

SpecConfig == InitConfig /\ [][Next]_vars

\* ============================================================ key accumulation
\* _collect_key_minlen called on its own
InitCollect ==
    /\ n \in NGrid
    /\ p_eve = 0
    /\ p_noise \in {0, 1}
    /\ SessionIdle /\ MainIdle /\ PackIdle /\ EnvIdle /\ HeatIdle
    /\ aes_available = TRUE
    /\ min_len \in 0 .. MaxMinLen
    /\ c_seed \in Seeds
    /\ bits = <<>>
    /\ hop = 0
    /\ cpc = "loop"
    /\ key_ret = <<>>
    /\ last_call = None

\* one turn of the while loop: a clean session on seed + hop, bits.extend
CollectHop ==
    /\ cpc = "loop"
    /\ CollectContinues(bits, hop, min_len)
    /\ \E r \in SessionResults(n, 0, p_noise) :
           bits' = bits \o r.key_bits
    /\ last_call' = [n |-> n, p_eve |-> 0, p_noise |-> p_noise, seed |-> c_seed + hop]
    /\ hop' = hop + 1
    /\ UNCHANGED <<argVars, sessVars, mainVars, aes_available, packVars, envVars, heatVars,
                   min_len, c_seed, cpc, key_ret>>

\* "return bits[:min_len]"
CollectReturn ==
    /\ cpc = "loop"
    /\ ~CollectContinues(bits, hop, min_len)
    /\ key_ret' = SliceTo(bits, min_len)
    /\ cpc' = "returned"
    /\ UNCHANGED <<argVars, sessVars, mainVars, aes_available, packVars, envVars, heatVars,
                   min_len, c_seed, bits, hop, last_call>>

NextCollect == CollectHop \/ CollectReturn

SpecCollect == InitCollect /\ [][NextCollect]_vars

\* ======================================================================== main
InitMain ==
    /\ n \in 0 .. MaxMainN
    /\ p_eve = 1
    /\ p_noise \in {0, 1}
    /\ SessionIdle /\ CollectIdle /\ PackIdle /\ EnvIdle /\ HeatIdle
    /\ aes_available \in BOOLEAN
    /\ seed = 1
    /\ steps \in 0 .. MaxSteps
    /\ xor_flag \in IF aes_available THEN BOOLEAN ELSE {FALSE}
    /\ mpc = "run_bb84"
    /\ bb = None
    /\ raw_key = <<>>
    /\ key32 = <<>>
    /\ data = <<>>
    /\ enc_mode = "none"
    /\ blob = <<>>
    /\ dec = <<>>

mainRest == <<argVars, sessVars, collVars, aes_available, packVars, envVars, heatVars,
              seed, steps, xor_flag>>

\* bb = run_bb84(n, p_eve, p_noise, seed, steps): the clean and the full
\* session on the seed's arrays, the sweep, the key accumulation, the dict
MainRunBB84 ==
    /\ mpc = "run_bb84"
    /\ \E kb \in CollectResults(KeyMinLen, n, p_noise) :
       \E qs \in SweepRuns(steps, steps, n, p_noise) :
       \E ab \in [1 .. n -> Bits], as \in [1 .. n -> Bases], bs \in [1 .. n -> Bases] :
       \E c \in SessionResultsGiven(ab, as, bs, 0, p_noise),
          f \in SessionResultsGiven(ab, as, bs, One, p_noise) :
           bb' = [qber_no_eve |-> c.qber, qber_full_eve |-> f.qber,
                  p_eves |-> [k \in 1 .. steps |-> Linspace(steps, k - 1)],
                  qbers |-> qs, key_bits |-> kb]
    /\ mpc' = "print"
    /\ UNCHANGED <<mainRest, raw_key, key32, data, enc_mode, blob, dec>>

\* the f-string of line 142 formats both QBERs with ":.3f": None raises TypeError
MainPrintQber ==
    /\ mpc = "print"
    /\ mpc' = IF bb.qber_no_eve = None \/ bb.qber_full_eve = None
              THEN "TypeError" ELSE "gate"
    /\ UNCHANGED <<mainRest, bb, raw_key, key32, data, enc_mode, blob, dec>>

\* the security gate
MainGate ==
    /\ mpc = "gate"
    /\ mpc' = IF GateAborts(bb.qber_no_eve) THEN "aborted" ELSE "derive"
    /\ UNCHANGED <<mainRest, bb, raw_key, key32, data, enc_mode, blob, dec>>

\* raw_key = bits_to_key_bytes(...); key32 = derive_key_sha256(raw_key) if has_aes()
MainDeriveKey ==
    /\ mpc = "derive"
    /\ raw_key' = BitsToKeyBytes(bb.key_bits)
    /\ key32' = IF aes_available THEN DeriveKeySha256(raw_key', aes_available)
                ELSE raw_key'
    /\ mpc' = "vqe"
    /\ UNCHANGED <<mainRest, bb, data, enc_mode, blob, dec>>

\* run_vqe_curve and json.dumps: the serialised payload
MainRunVQE ==
    /\ mpc = "vqe"
    /\ data' \in Payloads
    /\ mpc' = "encrypt"
    /\ UNCHANGED <<mainRest, bb, raw_key, key32, enc_mode, blob, dec>>

\* enc_mode and aes_ctr_encrypt(data, key32) or json_encrypt_xor(obj, raw_key)
MainEncrypt ==
    /\ mpc = "encrypt"
    /\ enc_mode' = IF aes_available /\ ~xor_flag THEN "AES-CTR" ELSE "XOR"
    /\ IF enc_mode' = "AES-CTR"
       THEN \E nonce \in Nonces :
              IF AesCtrEncryptRaises(key32, nonce, aes_available) = "ok"
              THEN /\ blob' = AesCtrEncrypt(data, key32, nonce)
                   /\ mpc' = "decrypt"
              ELSE /\ blob' = blob
                   /\ mpc' = AesCtrEncryptRaises(key32, nonce, aes_available)
       ELSE /\ blob' = XorBytes(data, raw_key)
            /\ mpc' = "decrypt"
    /\ UNCHANGED <<mainRest, bb, raw_key, key32, data, dec>>

\* aes_ctr_decrypt(blob, key32) or json_decrypt_xor(enc, raw_key), and the assert
MainDecrypt ==
    /\ mpc = "decrypt"
    /\ IF enc_mode = "AES-CTR"
       THEN IF AesCtrDecryptRaises(blob, key32, aes_available) = "ok"
            THEN /\ dec' = AesCtrDecrypt(blob, key32)
                 /\ mpc' = IF dec' = data THEN "report" ELSE "AssertionError"
            ELSE /\ dec' = dec
                 /\ mpc' = AesCtrDecryptRaises(blob, key32, aes_available)
       ELSE /\ dec' = XorBytes(blob, raw_key)
            /\ mpc' = IF dec' = data THEN "report" ELSE "AssertionError"
    /\ UNCHANGED <<mainRest, bb, raw_key, key32, data, enc_mode, blob>>

\* write_csv, write_report_html, json.dump
MainReport ==
    /\ mpc = "report"
    /\ mpc' = "done"
    /\ UNCHANGED <<mainRest, bb, raw_key, key32, data, enc_mode, blob, dec>>

NextMain ==
    \/ MainRunBB84
    \/ MainPrintQber
    \/ MainGate
    \/ MainDeriveKey
    \/ MainRunVQE
    \/ MainEncrypt
    \/ MainDecrypt
    \/ MainReport

SpecMain == InitMain /\ [][NextMain]_vars

\* ================================================================ key packing
BitSeqs(maxlen) == UNION {[1 .. L -> Bits] : L \in 0 .. maxlen}

InitPack ==
    /\ n = 0 /\ p_eve = 0 /\ p_noise = 0
    /\ SessionIdle /\ CollectIdle /\ MainIdle /\ EnvIdle /\ HeatIdle
    /\ aes_available = TRUE
    /\ pk_bits \in BitSeqs(MaxBits)
    /\ pk_bytes = <<>>

\* pk_bytes = bits_to_key_bytes(pk_bits)
PackCall ==
    /\ pk_bytes = <<>>
    /\ pk_bytes' = BitsToKeyBytes(pk_bits)
    /\ UNCHANGED <<argVars, sessVars, collVars, mainVars, aes_available, envVars, heatVars,
                   pk_bits>>

NextPack == PackCall

SpecPack == InitPack /\ [][NextPack]_vars

\* =================================================================== envelope
AesKeys == {Sha256(<<0>>), Sha256(<<1, 255>>)}

InitEnvelope ==
    /\ n = 0 /\ p_eve = 0 /\ p_noise = 0
    /\ SessionIdle /\ CollectIdle /\ MainIdle /\ PackIdle /\ HeatIdle
    /\ aes_available \in BOOLEAN
    /\ e_plain \in ByteSeqs(MaxLen)
    /\ e_key \in ByteSeqs(MaxLen) \cup AesKeys
    /\ e_mode = "none"
    /\ e_blob = <<>>
    /\ e_dec = <<>>
    /\ epc = "plain"

envRest == <<argVars, sessVars, collVars, mainVars, aes_available, packVars, heatVars,
             e_plain, e_key>>

\* e_blob = xor_bytes(e_plain, e_key)
EnvEncryptXor ==
    /\ epc = "plain"
    /\ e_mode' = "XOR"
    /\ e_blob' = XorBytes(e_plain, e_key)
    /\ epc' = "encrypted"
    /\ UNCHANGED <<envRest, e_dec>>

\* e_dec = xor_bytes(e_blob, e_key)
EnvDecryptXor ==
    /\ epc = "encrypted"
    /\ e_mode = "XOR"
    /\ e_dec' = XorBytes(e_blob, e_key)
    /\ epc' = "decrypted"
    /\ UNCHANGED <<envRest, e_mode, e_blob>>

\* e_blob = aes_ctr_encrypt(e_plain, e_key)
EnvEncryptAes ==
    /\ epc = "plain"
    /\ e_mode' = "AES-CTR"
    /\ \E nonce \in Nonces :
         IF AesCtrEncryptRaises(e_key, nonce, aes_available) = "ok"
         THEN /\ e_blob' = AesCtrEncrypt(e_plain, e_key, nonce)
              /\ epc' = "encrypted"
         ELSE /\ e_blob' = e_blob
              /\ epc' = AesCtrEncryptRaises(e_key, nonce, aes_available)
    /\ UNCHANGED <<envRest, e_dec>>

\* e_dec = aes_ctr_decrypt(e_blob, e_key)
EnvDecryptAes ==
    /\ epc = "encrypted"
    /\ e_mode = "AES-CTR"
    /\ IF AesCtrDecryptRaises(e_blob, e_key, aes_available) = "ok"
       THEN /\ e_dec' = AesCtrDecrypt(e_blob, e_key)
            /\ epc' = "decrypted"
       ELSE /\ e_dec' = e_dec
            /\ epc' = AesCtrDecryptRaises(e_blob, e_key, aes_available)
    /\ UNCHANGED <<envRest, e_mode, e_blob>>

NextEnvelope ==
    \/ EnvEncryptXor
    \/ EnvDecryptXor
    \/ EnvEncryptAes
    \/ EnvDecryptAes

SpecEnvelope == InitEnvelope /\ [][NextEnvelope]_vars

\* ==================================================================== heatmap
\* run_qber_heatmap(n, pe_min=0.0, pe_max=1.0, pe_steps, pn_min=0.0, pn_max=0.0,
\*                  pn_steps, seed, avg)
InitHeatmap ==
    /\ n \in 0 .. MaxHeatN
    /\ p_eve = 0 /\ p_noise = 0
    /\ SessionIdle /\ CollectIdle /\ MainIdle /\ PackIdle /\ EnvIdle
    /\ aes_available = TRUE
    /\ pe_steps \in 1 .. MaxPeSteps
    /\ pn_steps \in 1 .. MaxPnSteps
    /\ avg \in 1 .. MaxAvg
    /\ h_seed \in Seeds
    /\ h_i = 0 /\ h_j = 0 /\ h_k = 0
    /\ idx = 0
    /\ acc = Frac(0, 1)
    /\ mat = Zeros(pn_steps, pe_steps)
    /\ hpc = "loop"
    /\ h_calls = <<>>

heatRest == <<argVars, sessVars, collVars, mainVars, aes_available, packVars, envVars,
              pe_steps, pn_steps, avg, h_seed>>

\* one turn of "for k in range(avg)": a session on seed + idx + k
HeatCall ==
    /\ hpc = "loop"
    /\ h_i < pn_steps /\ h_j < pe_steps /\ h_k < avg
    /\ LET pe == LinspaceRange(0, One, pe_steps, h_j)
           pn == LinspaceRange(0, 0, pn_steps, h_i)
       IN  /\ \E r \in SessionResults(n, pe, pn) :
                  acc' = FracAdd(acc, QberOrZero(r.qber))
           /\ h_calls' = Append(h_calls,
                  [i |-> h_i, j |-> h_j, k |-> h_k, n |-> n, p_eve |-> pe,
                   p_noise |-> pn, seed |-> HeatSeed(h_seed, idx, h_k)])
    /\ h_k' = h_k + 1
    /\ UNCHANGED <<heatRest, h_i, h_j, idx, mat, hpc>>

\* the end of a cell: mat[i, j] = acc / float(avg); idx += 17; the next cell
HeatCellDone ==
    /\ hpc = "loop"
    /\ h_i < pn_steps /\ h_j < pe_steps /\ h_k = avg
    /\ mat' = [mat EXCEPT ![h_i + 1][h_j + 1] = FracDiv(acc, avg)]
    /\ idx' = idx + SeedStride
    /\ acc' = Frac(0, 1)
    /\ h_k' = 0
    /\ IF h_j + 1 < pe_steps
       THEN h_j' = h_j + 1 /\ h_i' = h_i
       ELSE h_j' = 0 /\ h_i' = h_i + 1
    /\ UNCHANGED <<heatRest, hpc, h_calls>>

\* "return {..., "qber": mat}"
HeatReturn ==
    /\ hpc = "loop"
    /\ h_i = pn_steps
    /\ hpc' = "returned"
    /\ UNCHANGED <<heatRest, h_i, h_j, h_k, idx, acc, mat, h_calls>>

NextHeatmap == HeatCall \/ HeatCellDone \/ HeatReturn

SpecHeatmap == InitHeatmap /\ [][NextHeatmap]_vars

\* ------------------------------------------------------- session: claims
SingleReturned == fn = "_bb84_single" /\ pc = "returned"
WalkReturned == fn = "bb84_walkthrough" /\ pc = "returned"

Zero == [num |-> 0, den |-> 1]

\* the indices (1-based) whose bases matched
Sifted == {k \in 1 .. Len(alice_bases) : alice_bases[k] = bob_bases[k]}

\* the entries of f at the indices of S, in index order
RECURSIVE Pick(_, _, _)
Pick(f, S, k) ==
    IF k > Len(f) THEN <<>>
    ELSE (IF k \in S THEN <<f[k]>> ELSE <<>>) \o Pick(f, S, k + 1)

\* C1: a session of _bb84_single with p_eve = 0.0 and p_noise = 0.0 that keeps
\* at least one transmission returns qber == 0.0: at every sifted position
\* Bob's measured bit is Alice's bit.
C1_CleanSessionHasZeroQber ==
    (SingleReturned /\ p_eve = 0 /\ p_noise = 0 /\ res_single.kept > 0)
        => /\ res_single.qber = Zero
           /\ sift_b = sift_a
           /\ \A k \in Sifted : txlog[k].bob_bit = alice_bits[k]

C1_Witness ==
    /\ SingleReturned /\ p_eve = 0 /\ p_noise = 0
    /\ n = MaxN /\ res_single.kept = MaxN
    /\ alice_bases[1] = "X" /\ alice_bases[2] = "Z"
    /\ res_single.qber = Zero

\* C6: for the same (n, p_eve, p_noise, seed) bb84_walkthrough makes the
\* draws and measurements of _bb84_single: the Alice bits at the positions it
\* marks keep = 1, in index order, are _bb84_single's key_bits, the number of
\* kept positions is kept, and the two qber values are equal.
C6_WalkthroughMatchesSingle ==
    WalkReturned =>
        LET K == {k \in 1 .. Len(res_walk.keep) : res_walk.keep[k] = 1}
        IN  /\ txlog = single_log
            /\ Pick(res_walk.alice_bits, K, 1) = res_single.key_bits
            /\ Cardinality(K) = res_single.kept
            /\ res_walk.qber = res_single.qber

C6_Witness ==
    /\ WalkReturned /\ n = MaxN /\ p_eve = 1 /\ p_noise = 1
    /\ res_single.kept = MaxN
    /\ res_single.qber = [num |-> 1, den |-> 2]
    /\ res_walk.qber = res_single.qber
    /\ txlog[1].intercepted /\ txlog[2].flipped

\* C7: a session with a probability outside [0, 1] or a non-positive
\* transmission count is rejected before any transmission is prepared or
\* measured, and no Session Result is returned.
InvalidConfig ==
    \/ n <= 0
    \/ p_eve < 0 \/ p_eve > PDen
    \/ p_noise < 0 \/ p_noise > PDen

C7_InvalidConfigRejected ==
    InvalidConfig => /\ txlog = <<>>
                     /\ res_single = None
                     /\ res_walk = None

\* C8: for the session _bb84_single returns, kept is the number of sifted
\* Alice bits and of sifted Bob bits, a transmission is sifted in exactly when
\* the bases are equal, qber is None exactly when kept == 0, and otherwise
\* qber is the number of sifted positions whose bits differ divided by kept.
C8_SessionResultInvariant ==
    SingleReturned =>
        LET errs == {k \in Sifted : alice_bits[k] # txlog[k].bob_bit}
        IN  /\ res_single.kept = Cardinality(Sifted)
            /\ res_single.kept = Len(res_single.key_bits)
            /\ res_single.kept = Len(sift_b)
            /\ res_single.key_bits = Pick(alice_bits, Sifted, 1)
            /\ sift_b = Pick([k \in 1 .. Len(txlog) |-> txlog[k].bob_bit], Sifted, 1)
            /\ (res_single.qber = None) <=> (res_single.kept = 0)
            /\ res_single.kept > 0 =>
                   res_single.qber.num * res_single.kept
                       = res_single.qber.den * Cardinality(errs)

C8_Witness ==
    /\ SingleReturned /\ n = MaxN
    /\ res_single.kept = MaxN
    /\ res_single.qber = [num |-> 1, den |-> 2]

\* the (bit, basis) the carrier was last prepared with
CarrierBit(t) == IF t.intercepted THEN t.eve_bit ELSE t.abit
CarrierBasis(t) == IF t.intercepted THEN t.eve_basis ELSE t.abasis

\* C9: in a transmission where the noise flip is applied and Bob's basis is
\* the carrier's preparation basis (Z or X), Bob's bit is the inverse of the
\* carrier's prepared bit; with no eavesdropper and matching bases a
\* noise-flipped transmission yields bob_bit != alice_bit.
C9_NoiseFlipInvertsMatchedOutcome ==
    \A k \in 1 .. Len(txlog) :
        LET t == txlog[k]
        IN  (t.flipped /\ t.bbasis = CarrierBasis(t)) => t.bob_bit = 1 - CarrierBit(t)

\* the state a carrier with (bit, basis) is in
CarrierState(bit, basis) ==
    IF basis = "Z" THEN (IF bit = 1 THEN "1" ELSE "0")
    ELSE (IF bit = 1 THEN "-" ELSE "+")

\* C10: where Eve intercepts with Alice's basis, her bit is Alice's bit, the
\* carrier she re-prepares has Alice's bit and basis, and without a noise
\* flip Bob, measuring in Alice's basis, gets Alice's bit; with p_noise = 0 a
\* sifted error occurs only where Eve intercepted with another basis.
C10_MatchingInterceptUndetectable ==
    \A k \in 1 .. Len(txlog) :
        LET t == txlog[k]
        IN  /\ (t.intercepted /\ t.eve_basis = t.abasis) =>
                   /\ t.eve_bit = t.abit
                   /\ t.resent = CarrierState(t.abit, t.abasis)
                   /\ (~t.flipped /\ t.bbasis = t.abasis) => t.bob_bit = t.abit
            /\ (p_noise = 0 /\ t.abasis = t.bbasis /\ t.bob_bit # t.abit) =>
                   (t.intercepted /\ t.eve_basis # t.abasis)

C10_Witness ==
    /\ SingleReturned /\ p_noise = 0 /\ n = MaxN
    /\ txlog[1].intercepted /\ txlog[1].eve_basis = "X" /\ txlog[1].abasis = "X"
    /\ txlog[1].bbasis = "X" /\ txlog[1].abit = 1 /\ txlog[1].bob_bit = 1
    /\ txlog[2].intercepted /\ txlog[2].eve_basis # txlog[2].abasis
    /\ txlog[2].abasis = txlog[2].bbasis /\ txlog[2].bob_bit # txlog[2].abit

\* ------------------------------------- the two views of a call agree
\* what the step-wise session returns is one of SessionResultsGiven
SessionViewsAgree ==
    (fn = "_bb84_single" /\ pc = "returned") =>
        res_single \in SessionResultsGiven(alice_bits, alice_bases, bob_bases,
                                           p_eve, p_noise)

\* what the step-wise accumulation returns is one of CollectResults
CollectViewsAgree ==
    cpc = "returned" => key_ret \in CollectResults(min_len, n, p_noise)

\* ---------------------------------------------------------- main: claims
QberUsable(q) == q # None /\ q.num * ThresholdDen <= ThresholdNum * q.den

KeyOrCiphertextExists ==
    \/ raw_key # <<>> \/ key32 # <<>> \/ blob # <<>>
    \/ mpc \in {"vqe", "encrypt", "decrypt", "report", "done"}

\* C2: in main, key derivation and payload encryption are reached only if
\* the qber_no_eve run_bb84 returned is a number that does not exceed 0.11;
\* when it is None or greater than 0.11 the run ends without a key and
\* without a ciphertext.
C2_GateBeforeKeyAndEncryption ==
    /\ KeyOrCiphertextExists => (bb # None /\ QberUsable(bb.qber_no_eve))
    /\ (bb # None /\ ~QberUsable(bb.qber_no_eve)) =>
           /\ mpc \in {"print", "gate", "TypeError", "aborted"}
           /\ raw_key = <<>> /\ key32 = <<>> /\ blob = <<>> /\ dec = <<>>

C2_Witness ==
    /\ mpc = "aborted"
    /\ bb.qber_no_eve = [num |-> 1, den |-> 1]
    /\ Len(bb.key_bits) >= 8
    /\ raw_key = <<>> /\ blob = <<>>

\* ------------------------------------------------------- collect: claims
C3_State ==
    /\ hop <= HopCap
    /\ hop >= 1 => last_call = [n |-> n, p_eve |-> 0, p_noise |-> p_noise,
                                seed |-> c_seed + hop - 1]
    /\ cpc = "returned" =>
           IF Len(bits) >= min_len
           THEN /\ Len(key_ret) = min_len
                /\ key_ret = SubSeq(bits, 1, min_len)
           ELSE /\ key_ret = bits
                /\ hop = HopCap

C3_Step ==
    /\ cpc = "loop" /\ cpc' = "returned" => (Len(bits) >= min_len \/ hop = HopCap)
    /\ hop' # hop =>
           /\ hop' = hop + 1
           /\ Len(bits) < min_len
           /\ last_call'.seed = c_seed + hop
           /\ Len(bits') <= Len(bits) + n
           /\ SubSeq(bits', 1, Len(bits)) = bits

\* C3: _collect_key_minlen runs clean sessions (p_eve = 0) on the seeds seed,
\* seed + 1, ... in that order, appends their sifted Alice bits, stops as
\* soon as min_len bits are there or 10 sessions have run, and returns the
\* first min_len bits if min_len was reached and all the bits, fewer than
\* min_len, only if the cap of 10 was hit; it never runs more than 10 sessions.
C3_KeyAccumulation == []C3_State /\ [][C3_Step]_vars

C3_Witness ==
    /\ cpc = "returned"
    /\ n = MaxN /\ min_len = MaxMinLen
    /\ hop = 3
    /\ Len(bits) = min_len + 1
    /\ key_ret = SubSeq(bits, 1, min_len)
    /\ key_ret # bits

\* ---------------------------------------------------------- pack: claims
RECURSIVE ByteToBits(_, _)
ByteToBits(byte, width) ==
    IF width = 0 THEN <<>>
    ELSE Append(ByteToBits(byte \div 2, width - 1), byte % 2)

\* the bytes as bits, 8 per byte, most-significant bit first
RECURSIVE Unpack(_)
Unpack(byts) ==
    IF Len(byts) = 0 THEN <<>> ELSE ByteToBits(Head(byts), 8) \o Unpack(Tail(byts))

PackCalled == pk_bytes # <<>>

\* C4 as stated: for any bit sequence whose length is a multiple of 8,
\* unpacking the bytes of bits_to_key_bytes gives back the bit sequence.
C4_RoundTripAnyMultipleOf8 ==
    (PackCalled /\ Len(pk_bits) % 8 = 0) => Unpack(pk_bytes) = pk_bits

\* C4 amended: for any non-empty bit sequence whose length is a multiple of
\* 8, unpacking the bytes of bits_to_key_bytes (8 bits per byte,
\* most-significant bit first) gives back the bit sequence; for the empty
\* bit sequence bits_to_key_bytes returns the single zero byte, which unpacks
\* to eight 0 bits.
C4_RoundTripNonEmpty ==
    /\ (PackCalled /\ Len(pk_bits) % 8 = 0 /\ Len(pk_bits) > 0) =>
           /\ Len(pk_bytes) * 8 = Len(pk_bits)
           /\ Unpack(pk_bytes) = pk_bits
    /\ (PackCalled /\ Len(pk_bits) = 0) =>
           /\ pk_bytes = <<0>>
           /\ Unpack(pk_bytes) = [j \in 1 .. 8 |-> 0]

C4_Witness ==
    /\ PackCalled
    /\ Len(pk_bits) = 16
    /\ pk_bytes = <<1, 128>>
    /\ Unpack(pk_bytes) = pk_bits

\* ------------------------------------------------------ envelope: claims
\* C5: decrypting what encrypting a plaintext under a key gave, under the same
\* key, returns the plaintext, for every plaintext and key, the empty ones
\* included: in stream mode c[i] = p[i] XOR k[i mod |k|] and an empty key
\* leaves the data unchanged; in counter-block mode the blob is the 16-byte
\* nonce followed by as many bytes as the plaintext has.
C5_EnvelopeRoundTrip ==
    /\ epc = "decrypted" => e_dec = e_plain
    /\ (epc \in {"encrypted", "decrypted"} /\ e_mode = "XOR") =>
           /\ Len(e_blob) = Len(e_plain)
           /\ Len(e_key) = 0 => e_blob = e_plain
           /\ Len(e_key) > 0 =>
                  \A j \in 1 .. Len(e_plain) :
                      e_blob[j] = BitXor(e_plain[j], e_key[((j - 1) % Len(e_key)) + 1])
    /\ (epc \in {"encrypted", "decrypted"} /\ e_mode = "AES-CTR") =>
           /\ Len(e_blob) = NonceLen + Len(e_plain)
           /\ SubSeq(e_blob, 1, NonceLen) \in Nonces

C5_Witness ==
    /\ epc = "decrypted" /\ e_mode = "AES-CTR"
    /\ Len(e_plain) = MaxLen
    /\ SubSeq(e_blob, NonceLen + 1, Len(e_blob)) # e_plain
    /\ e_dec = e_plain

C5_WitnessStream ==
    /\ epc = "decrypted" /\ e_mode = "XOR"
    /\ Len(e_plain) = MaxLen /\ Len(e_key) = 1 /\ e_key[1] = 255
    /\ e_blob # e_plain
    /\ e_dec = e_plain

\* ------------------------------------------------------- heatmap: claims
\* C11: in run_qber_heatmap, for every grid size, every avg >= 1 and every
\* base seed, the seed of a session is a function of the base seed, the cell
\* and the repetition index, and no two sessions of different cells are
\* given the same seed.
C11_HeatmapSeedsNeverCollide ==
    \A a, b \in 1 .. Len(h_calls) :
        /\ h_calls[a].seed =
               h_seed + (SeedStride * ((h_calls[a].i * pe_steps) + h_calls[a].j))
                      + h_calls[a].k
        /\ <<h_calls[a].i, h_calls[a].j>> # <<h_calls[b].i, h_calls[b].j>> =>
               h_calls[a].seed # h_calls[b].seed

\* the seeds are the stated function and distinct whenever avg <= 17
HeatmapSeedsDistinctBelowStride ==
    avg <= SeedStride =>
        \A a, b \in 1 .. Len(h_calls) :
            <<h_calls[a].i, h_calls[a].j>> # <<h_calls[b].i, h_calls[b].j>> =>
                h_calls[a].seed # h_calls[b].seed

\* ------------------------------------------- insufficient key material: claims
\* C12: when the bit sequence has fewer than 8 bits bits_to_key_bytes returns
\* the single zero byte, and the caller can tell this outcome from the key
\* returned for any bit sequence of 8 or more bits.
C12_PlaceholderDistinguishable ==
    PackCalled =>
        /\ Len(pk_bits) < 8 => pk_bytes = <<0>>
        /\ Len(pk_bits) >= 8 => pk_bytes # BitsToKeyBytes(<<>>)

\* main, handed fewer than 8 key bits, derives no key and encrypts nothing
MainBlocksPlaceholderKey ==
    (bb # None /\ Len(bb.key_bits) < 8) =>
        (raw_key = <<>> /\ key32 = <<>> /\ blob = <<>>)

====
